---- MODULE Spec2Model ----
(***************************************************************************)
(* Model of the rscontainer service container (container.rs, version 2.0), *)
(* its Resolver, the ContainerBuilder and the erased reference-counted     *)
(* pointer (pointers.rs / internal_helpers.rs).                            *)
(*                                                                         *)
(* A resolve call is a frame on an explicit call stack.  The engine's own  *)
(* statements are deterministic; the constructors and hooks supplied by    *)
(* the consumer are the environment: they may issue any nested resolution  *)
(* through the Resolver they are handed, handle or hand on its error, and  *)
(* then return a new instance or an error of their own.                    *)
(***************************************************************************)
EXTENDS Integers, Sequences, FiniteSets, TLC

\* ---------------------------------------------------------------- bounds
Types     == {"A", "B"}      \* the TypeIds used as keys
Errors    == {"e1", "e2"}    \* error values a constructor can produce
Params    == {1, 2}          \* parameters of an owned resolution
Threads   == {1, 2}          \* threads that access an instance
Values    == {0, 1}          \* contents of a shared instance
CtorKinds == {"absent", "singleton", "instance", "both"}
                             \* custom constructors registered for a type
MaxAlloc  == 2               \* Rc allocations made in one run
MaxDepth  == 2               \* nesting depth of resolve calls
MaxStrong == 3               \* strong count up to which handles are handed out
MaxCycleDepth == 4           \* nesting depth of the calls of scripted services
MaxNest   == 2               \* accesses one thread nests on an instance
MaxHeld   == 1               \* owned instances a caller holds on to

\* ------------------------------------------------------------- variables
VARIABLES
    phase,      \* "building" (ContainerBuilder), "built", "dropped"
    services,   \* FnvHashMap<TypeId, TypeErasedService>
    heap,       \* Rc allocations: address -> [ty, strong, dropped, val]
    handles,    \* address -> number of live handles returned by resolve_shared
    kept,       \* address -> number of live clones its creator kept
    stack,      \* frames of the resolve calls in progress, outermost first
    ret,        \* outcome of the call that ended last
    held,       \* owned instances their callers still hold: [id, ty]
    script,     \* what the constructor and the hook of each type resolve
    cell,       \* the instance that is accessed: its backing and its poison flag
    acc,        \* per thread: its accesses in progress and how its last one ended
    lib         \* the ServiceContainer of lib.rs: singletons and constructors

\* What the container's operations leave alone.
outside == <<held, script, cell, acc, lib>>

\* What an access to an instance leaves alone.
container == <<phase, services, heap, handles, kept, stack, ret, held, script, lib>>

vars == <<phase, services, heap, handles, kept, stack, ret, outside>>

\* --------------------------------------------------- reference counting
\* Address the next Rc::new returns.
NextAddr(h) == Cardinality(DOMAIN h) + 1

\* Rc::new of a pointer of type t: a new allocation with strong count 1,
\* holding the value its constructor made.
rc_new(h, t) ==
    h @@ (NextAddr(h) :> [ty |-> t, strong |-> 1, dropped |-> 0, val |-> 0])

\* Rc::clone: one more strong reference.
rc_clone(h, a) == [h EXCEPT ![a].strong = @ + 1]

\* Drop of an Rc: one strong reference less; the value's destructor runs
\* when the last one goes.
rc_drop(h, a) ==
    [h EXCEPT ![a].strong = @ - 1,
              ![a].dropped = IF h[a].strong = 1 THEN @ + 1 ELSE @]

\* ISharedPointer::into_ptr: the raw address, the reference is not released.
into_ptr(a) == a

\* SharedPtr::new: erases the pointer, keeping its address.
SharedPtr_new(a) == into_ptr(a)

\* ISharedPointer::from_ptr: the pointer of the address, no new reference.
from_ptr(ptr) == ptr

\* clone_from_ptr that hands out a pointer to a value made anew.
clone_from_ptr_Reset(h, ptr) == [rc_clone(h, ptr) EXCEPT ![ptr].val = 0]

\* clone_from_ptr that forgets the clone: from_ptr alone, no new reference.
clone_from_ptr_NoClone(h, ptr) == h

\* ISharedPointer::clone_from_ptr: from_ptr in a ManuallyDrop, then clone.
clone_from_ptr(h, ptr) == rc_clone(h, from_ptr(ptr))

\* A dtor that only forgets the pointer.
drop_from_ptr_Forget(h, ptr) == h

\* ISharedPointer::drop_from_ptr, the dtor of a SharedPtr: drop of the
\* pointer from_ptr gives.
drop_from_ptr(h, ptr) == rc_drop(h, from_ptr(ptr))

\* ------------------------------------------------------- registry entries
\* TypeErasedService::default(): shared_ptr = 0 stands for None.
DefaultService == [shared_ptr |-> 0, shared_ctor |-> "none", owned_ctor |-> "none"]

\* HashMap::entry(key).or_default()
OrDefault(m, t) == IF t \in DOMAIN m THEN m ELSE m @@ (t :> DefaultService)

\* What a test sees of the entry of t: whether it exists and its fields.
Snap(m, t) ==
    IF t \in DOMAIN m
    THEN [present |-> TRUE, shared_ptr |-> m[t].shared_ptr,
          shared_ctor |-> m[t].shared_ctor, owned_ctor |-> m[t].owned_ctor]
    ELSE [present |-> FALSE, shared_ptr |-> 0,
          shared_ctor |-> "none", owned_ctor |-> "none"]

\* insert that puts a new entry in the place of the one it finds.
Insert_NewEntry(m, t, a) ==
    LET m1 == OrDefault(m, t) IN
    IF m1[t].shared_ptr = 0
    THEN [ok |-> TRUE,
          map |-> [m1 EXCEPT ![t] = [DefaultService EXCEPT !.shared_ptr = SharedPtr_new(a)]]]
    ELSE [ok |-> FALSE, map |-> m1]

\* insert that asserts that the entry is an empty one.
Insert_OnlyEmpty(m, t, a) ==
    LET m1 == OrDefault(m, t) IN
    IF m1[t] = DefaultService
    THEN [ok |-> TRUE,  map |-> [m1 EXCEPT ![t].shared_ptr = SharedPtr_new(a)]]
    ELSE [ok |-> FALSE, map |-> m1]

\* insert without its assert: the pointer is stored in every case.
Insert_NoAssert(m, t, a) ==
    [ok |-> TRUE, map |-> [OrDefault(m, t) EXCEPT ![t].shared_ptr = SharedPtr_new(a)]]

\* insert that asserts after the assignment: it panics, but has stored.
Insert_AssertLate(m, t, a) ==
    LET m1 == OrDefault(m, t) IN
    [ok |-> m1[t].shared_ptr = 0, map |-> [m1 EXCEPT ![t].shared_ptr = SharedPtr_new(a)]]

\* insert that passes its assert and then does not store the pointer.
Insert_NoStore(m, t, a) ==
    LET m1 == OrDefault(m, t) IN [ok |-> m1[t].shared_ptr = 0, map |-> m1]

\* ServiceContainer::insert up to its assert: the entry is created first,
\* then the assert decides; on a failed assert nothing is stored.
Insert(m, t, a) ==
    LET m1 == OrDefault(m, t) IN
    IF m1[t].shared_ptr = 0
    THEN [ok |-> TRUE,  map |-> [m1 EXCEPT ![t].shared_ptr = SharedPtr_new(a)]]
    ELSE [ok |-> FALSE, map |-> m1]

\* A match of resolve_owned that never looks for an override.
OwnedSource_DefaultOnly(m, t) == "default"

\* A match without its first arm: the cached pointer is never looked at.
SharedSource_NoCache(m, t) ==
    IF t \in DOMAIN m /\ m[t].shared_ctor # "none" THEN "override" ELSE "default"

\* A match whose arms are swapped: the override goes before the cache.
SharedSource_OverrideFirst(m, t) ==
    IF t \in DOMAIN m /\ m[t].shared_ctor # "none" THEN "override"
    ELSE IF t \in DOMAIN m /\ m[t].shared_ptr # 0 THEN "cached"
    ELSE "default"

\* The match of resolve_shared: which source serves the call.
SharedSource(m, t) ==
    IF t \in DOMAIN m /\ m[t].shared_ptr # 0 THEN "cached"
    ELSE IF t \in DOMAIN m /\ m[t].shared_ctor # "none" THEN "override"
    ELSE "default"

\* The match of resolve_owned.
OwnedSource(m, t) ==
    IF t \in DOMAIN m /\ m[t].owned_ctor # "none" THEN "override" ELSE "default"

\* A lookup through the entry API, which creates the entry it looks for.
Lookup_Entry(m, t) == OrDefault(m, t)

\* self.services.get(&TypeId::of::<S>()): the map after the lookup of the
\* match; get creates no entry.
Lookup(m, t) == m

\* An error path that replaces the error by a fixed one.
Propagate_Replace(e) == "e1"

\* The `?` after a constructor call and the Err arm of Resolver::shared:
\* the error is handed on as it is.
Propagate(e) == e

\* An engine that falls back to the default constructor when an override
\* has failed.
OnCtorErr_Fallback(f) ==
    IF f.src = "override" /\ Len(f.calls) = 1 THEN "fallback" ELSE "return"

\* What the engine does when the constructor of frame f has returned Err:
\* the `?` returns from the resolve call.
OnCtorErr(f) == "return"

\* ----------------------------------------------------------------- services
\* The services of an application as far as resolution goes: the shared
\* dependency the constructor of a type resolves and the one its hook
\* resolves ("none": it resolves nothing).  Such a constructor returns Ok
\* once its dependency is there.
Scripts ==
    [Types -> [ctor : Types \cup {"none"}, hook : Types \cup {"none"}]]

\* Services whose code is not fixed: constructors and hooks may do all a
\* Resolver allows.
NoScript == <<>>

\* ------------------------------------------------------------------ frames
\* A resolve call in progress: the operation and type, where it stands
\* ("ctor": the constructor runs, "hook": the hook runs), the source its
\* match chose, the instance it holds, and what it has observed: the entry
\* when it started (pre), the constructors and hooks it called, whether its
\* type was cached by a call nested in it (reent), and how the call before
\* it ended if that was a resolve_shared of the same type that invoked the
\* constructor (prev, "none" otherwise).  An owned call shows the
\* parameters its constructor was called with (arg).  deps are the shared
\* instances the constructor of the call got from the Resolver, known
\* those the call before it had got when that call was a failed
\* resolve_shared of the same type.
NoFrame ==
    [op |-> "none", ty |-> "none", pc |-> "none", src |-> "none", inst |-> 0,
     params |-> 0, pre |-> Snap(<<>>, "none"), calls |-> <<>>, hooks |-> 0,
     reent |-> FALSE, prev |-> "none", arg |-> 0, deps |-> {}, known |-> {}]

\* Outcome of a call: Ok(val), Err(err) or a panic, with the frame that
\* ended and its depth; orig is the error as the constructor that failed
\* produced it and from the depth of that constructor's call.
NoRet == [kind |-> "None", val |-> 0, err |-> "none", orig |-> "none",
          from |-> 0, depth |-> 0, fr |-> NoFrame]

\* Outcome of the call that ended last, if that was a resolve_shared of t
\* in which the constructor of t was invoked.
Prev(t) ==
    IF ret.fr.op = "shared" /\ ret.fr.ty = t /\ ret.fr.calls # <<>>
    THEN ret.kind ELSE "none"

Top == stack[Len(stack)]

Idle == stack = <<>>

\* The consumer code of the innermost frame is running (no result pending).
Running == stack # <<>> /\ ret.kind = "None"

\* Replace the innermost frame.
SetTop(f) == [stack EXCEPT ![Len(stack)] = f]

Pop == SubSeq(stack, 1, Len(stack) - 1)

\* The dependency the code the innermost frame runs has to resolve.
Dep(f) == IF script = NoScript THEN "none" ELSE script[f.ty][f.pc]

\* The constructor or hook of the innermost frame has come to its return:
\* at any point where it runs when its code is not fixed, else when it
\* has no dependency or has just got it.
CodeEnds ==
    IF script = NoScript THEN Running
    ELSE /\ stack # <<>>
         /\ \/ ret.kind = "None" /\ Dep(Top) = "none"
            \/ ret.kind = "Ok"

\* Nesting depth up to which calls are followed.
DepthBound == IF script = NoScript THEN MaxDepth ELSE MaxCycleDepth

\* Mark the enclosing calls of type t: t was cached below them.
MarkReent(s, t) ==
    [i \in DOMAIN s |->
        IF s[i].ty = t THEN [s[i] EXCEPT !.reent = TRUE] ELSE s[i]]

\* Owned instances that are alive: those the calls in progress hold and
\* those their callers hold on to.
OwnedInUse(s) ==
    {s[i].inst : i \in {j \in DOMAIN s : s[j].op = "owned"}} \cup {h.id : h \in held}

\* Identity of the value a constructor creates: the first one no live
\* owned instance has.
NewOwned(s) ==
    CHOOSE n \in 1..(Len(s) + MaxHeld + 1) :
        /\ n \notin OwnedInUse(s)
        /\ \A k \in 1..(n - 1) : k \in OwnedInUse(s)

\* A hook that is not called for an instance that came from the cache.
CallHook_SkipCached(f) ==
    [f EXCEPT !.pc = "hook", !.hooks = IF f.src = "cached" THEN @ ELSE @ + 1]

\* S::resolved(&mut instance, self.resolver()): the hook of the type is
\* called with the instance the call has obtained.
CallHook(f) == [f EXCEPT !.pc = "hook", !.hooks = @ + 1]

\* A constructor call that is handed fixed parameters.
CtorArg_Default(p) == 1

\* ctor(self.resolver(), params): the parameters the constructor is called
\* with are those of the caller.
CtorArg(p) == p

\* An engine that memoises: an instance an earlier call returned is
\* returned again.
OwnedInstance_Reuse(f, n) ==
    IF held # {} THEN (CHOOSE h \in held : TRUE).id ELSE n

\* `let mut owned = ...?`: the instance of an owned call is the value n its
\* constructor has just returned.
OwnedInstance(f, n) == n

\* Handles the frames own: the `instance` local of a shared call in its hook.
FrameHolds(s, a) ==
    Cardinality({i \in DOMAIN s : s[i].op = "shared" /\ s[i].inst = a})

RECURSIVE DropFrames(_, _)
\* Unwinding: every frame's `instance` is dropped, innermost first.
DropFrames(h, s) ==
    IF s = <<>> THEN h
    ELSE LET f == s[Len(s)]
             h1 == IF f.op = "shared" /\ f.inst # 0 THEN rc_drop(h, f.inst) ELSE h
         IN DropFrames(h1, SubSeq(s, 1, Len(s) - 1))

\* ------------------------------------------------------------------ access
\* The types an instance can be backed by: Access<T>, Cell<T>, RefCell<T>,
\* Mutex<T> and RwLock<T>, behind an Rc or an Arc.
Backings == {"Access", "Cell", "RefCell", "Mutex", "RwLock"}

LockBackings == {"Mutex", "RwLock"}

\* The operations of IAccess and of IAccessMut.
SharedOps == {"access", "try_access"}

ExclusiveOps == {"access_mut", "try_access_mut"}

\* Access<T> makes its value read-only: it implements IAccess alone.
OpsOf(b) == IF b = "Access" THEN SharedOps ELSE SharedOps \cup ExclusiveOps

\* An instance: its backing, the poison flag of its lock, and what has
\* happened to it: a closure panicked during an exclusive access (xp),
\* during a shared access (sp), and that no access has started since a
\* closure panicked during an exclusive access to a lock (fresh); val is
\* the value it guards.
NoCell == [backing |-> "none", poison |-> FALSE, xp |-> FALSE, sp |-> FALSE,
           fresh |-> FALSE, val |-> 0]

\* How an access ended: the closure ran and returned ("Ran": U or Some(U)),
\* the operation returned None, or a panic left it, raised by the closure,
\* by assert_healthy, or by the operation itself on a borrow or a lock
\* held already (cause); free tells whether no guard was in its way when
\* it started; when its closure worked on a copy, got0 is the value the
\* copy had first and copy the one it had last; was is the guarded value
\* before the operation ended.
NoOutcome == [op |-> "none", res |-> "none", tag |-> "none", cause |-> "none",
              free |-> TRUE, got0 |-> 0, copy |-> 0, was |-> 0]

\* A thread: the accesses it has in progress, how its last one ended, and
\* the blocking operation it is parked in (want, "none" when it runs).
NoAcc == [th \in Threads |-> [stack |-> <<>>, last |-> NoOutcome, want |-> "none"]]

\* A Mutex that tells readers from writers as a RwLock does.
GuardOf_ReadersShare(b, op) ==
    IF b \in {"Access", "Cell"} THEN "none"
    ELSE IF op \in SharedOps THEN "read" ELSE "write"

\* The guard an operation takes on a backing: Access and Cell take none,
\* a Mutex has one kind of guard, RefCell and RwLock have two.
GuardOf(b, op) ==
    IF b \in {"Access", "Cell"} THEN "none"
    ELSE IF b = "Mutex" THEN "write"
    ELSE IF op \in SharedOps THEN "read" ELSE "write"

\* Guards the accesses in progress of the threads in who hold.
Guards(who) ==
    {<<th, i>> \in who \X (1..MaxNest + 1) : i \in DOMAIN acc[th].stack
                                           /\ acc[th].stack[i].guard # "none"}

\* Borrows and locks that give way to nobody: a shared one is refused
\* while another shared one is out.
Conflict_ReadersBlock(g, who) == g # "none" /\ Guards(who) # {}

\* A guard g cannot be had while the threads in who hold what they hold: a
\* read guard goes with read guards, a write guard with nothing.
Conflict(g, who) ==
    \/ g = "write" /\ Guards(who) # {}
    \/ g = "read" /\ \E x \in Guards(who) : acc[x[1]].stack[x[2]].guard = "write"

\* A borrow of a RefCell that poisons like the guard of a lock.
PoisonsOnPanic_Borrows(b, g) == g # "none"

\* A guard that poisons whenever it is dropped during a panic.
PoisonsOnPanic_AnyGuard(b, g) == b \in LockBackings /\ g # "none"

\* Drop of a guard while its thread panics: a MutexGuard and a
\* RwLockWriteGuard set the poison flag of their lock, a RwLockReadGuard
\* and the borrows of a RefCell set nothing.
PoisonsOnPanic(b, g) ==
    \/ b = "Mutex" /\ g # "none"
    \/ b = "RwLock" /\ g = "write"

\* A guard whose drop without a panic clears the flag.
GuardDrop_Clears(p, b, g, panicking) == panicking /\ PoisonsOnPanic(b, g)

\* The poison flag after a guard is dropped.
GuardDrop(p, b, g, panicking) == p \/ (panicking /\ PoisonsOnPanic(b, g))

\* A try that looks at the poison flag before it looks at the lock.
TryAcquire_PoisonFirst(th, g) ==
    IF cell.poison THEN "Poisoned"
    ELSE IF g # "none" /\ Conflict(g, Threads) THEN "WouldBlock"
    ELSE "Ok"

\* try_lock / try_read / try_write / try_borrow(_mut) of thread th for a
\* guard g: it never waits.
TryAcquire(th, g) ==
    IF g # "none" /\ Conflict(g, Threads) THEN "WouldBlock"
    ELSE IF cell.poison THEN "Poisoned" ELSE "Ok"

\* A lock that is handed out whatever the other threads hold.
Acquire_NoWait(th, g) ==
    IF g # "none" /\ Conflict(g, {th}) THEN "Panic"
    ELSE IF cell.poison THEN "Poisoned" ELSE "Ok"

\* lock / read / write / borrow(_mut) of thread th for a guard g: a lock
\* waits while another thread is in the way; a borrow that is in the way
\* panics; a lock that the thread itself holds panics or never returns,
\* and a call that never returns is a step that is never taken.
Acquire(th, g) ==
    IF g # "none" /\ Conflict(g, {th}) THEN "Panic"
    ELSE IF g # "none" /\ Conflict(g, Threads \ {th}) THEN
             IF cell.backing = "RefCell" THEN "Panic" ELSE "Wait"
    ELSE IF cell.poison THEN "Poisoned" ELSE "Ok"

\* A match whose catch-all arm comes first: a poisoned lock is refused.
OnTry_PoisonRefuses(r) ==
    IF r = "Ok" THEN [kind |-> "run", tag |-> "Healthy"]
    ELSE [kind |-> "none", tag |-> "none"]

\* The match of try_access / try_access_mut on the result of the try:
\* Ok(lock), Err(TryLockError::Poisoned(lock)), Err(..).
OnTry(r) ==
    IF r = "Ok" THEN [kind |-> "run", tag |-> "Healthy"]
    ELSE IF r = "Poisoned" THEN [kind |-> "run", tag |-> "Poisoned"]
    ELSE [kind |-> "none", tag |-> "none"]

\* A blocking access that gives up as a try does: None for a borrow that
\* cannot be had.
OnLock_Refuses(r) ==
    IF r = "Ok" THEN [kind |-> "run", tag |-> "Healthy"]
    ELSE IF r = "Poisoned" THEN [kind |-> "run", tag |-> "Poisoned"]
    ELSE IF r = "Panic" THEN [kind |-> "none", tag |-> "none"]
    ELSE [kind |-> "wait", tag |-> "none"]

\* A blocking access with a timeout: None for a lock that is not to be
\* had at once.
OnLock_GivesUp(r) ==
    IF r = "Ok" THEN [kind |-> "run", tag |-> "Healthy"]
    ELSE IF r = "Poisoned" THEN [kind |-> "run", tag |-> "Poisoned"]
    ELSE IF r = "Panic" THEN [kind |-> "panic", tag |-> "none"]
    ELSE [kind |-> "none", tag |-> "none"]

\* The match of access / access_mut: Ok(lock), Err(poison).
OnLock(r) ==
    IF r = "Ok" THEN [kind |-> "run", tag |-> "Healthy"]
    ELSE IF r = "Poisoned" THEN [kind |-> "run", tag |-> "Poisoned"]
    ELSE IF r = "Panic" THEN [kind |-> "panic", tag |-> "none"]
    ELSE [kind |-> "wait", tag |-> "none"]

\* What operation op of thread th comes to before any closure runs.
Begin(th, op) ==
    LET g == GuardOf(cell.backing, op) IN
    IF op \in {"try_access", "try_access_mut"} THEN OnTry(TryAcquire(th, g))
    ELSE OnLock(Acquire(th, g))

\* Poisoning::assert_healthy that asserts the other way round.
assert_healthy_Swapped(tag) == IF tag = "Poisoned" THEN "value" ELSE "panic"

\* Poisoning::assert_healthy: the value, or a panic.
assert_healthy(tag) == IF tag = "Healthy" THEN "value" ELSE "panic"

\* Poisoning::unpoison: the value of either variant.
unpoison(tag) == "value"

\* The k innermost accesses of a thread, which a panic unwinds.
Unwound(st, k) == {st[i] : i \in (Len(st) - k + 1)..Len(st)}

\* The instance after a panic has unwound the frames fs of a thread: every
\* guard of theirs was dropped while the thread panicked.
AfterPanic(c, fs) ==
    [c EXCEPT
       !.poison = \E f \in fs \cup {[guard |-> "none"]} :
                     GuardDrop(c.poison, c.backing, f.guard, TRUE),
       !.xp = @ \/ \E f \in fs : f.op \in ExclusiveOps,
       !.sp = @ \/ \E f \in fs : f.op \in SharedOps,
       !.fresh = (@ \/ \E f \in fs : f.op \in ExclusiveOps) /\ c.backing \in LockBackings]

\* The closure of an access to a Cell is handed a copy, self.get(); that
\* of any other backing is handed a reference and has no copy.
Local(c) == IF c.backing = "Cell" THEN c.val ELSE 0

\* An access_mut to a Cell that leaves the cell as it finds it.
StoreBack_Skip(c, f) == c

\* self.set(value) of access_mut and try_access_mut of a Cell, after the
\* closure has returned; no other implementation stores anything.
StoreBack(c, f) ==
    IF c.backing = "Cell" /\ f.op \in ExclusiveOps THEN [c EXCEPT !.val = f.copy]
    ELSE c

\* A thread may use the instance: a Cell and a RefCell are not Sync and stay
\* in their thread.
MayAccess(th) == cell.backing \in LockBackings \cup {"Access"} \/ th = 1

\* Thread th calls op on the instance, at top level or from inside a
\* closure that runs on the same instance.  The closure starts with the
\* guard taken and the tag the match gives it, or the operation returns
\* None, or it panics and the panic unwinds k of the accesses in progress
\* of the thread (up to a catch_unwind) with their guards.
access_call(th, op, k) ==
    /\ MayAccess(th) /\ op \in OpsOf(cell.backing)
    /\ acc[th].want = "none"
    /\ Len(acc[th].stack) < MaxNest
    /\ LET st == acc[th].stack
           b  == Begin(th, op)
           g  == GuardOf(cell.backing, op)
           fr == ~(g # "none" /\ Conflict(g, Threads))
           out == [NoOutcome EXCEPT !.op = op, !.free = fr]
       IN /\ b.kind # "wait"
          /\ b.kind = "run" =>
                /\ k = 0
                /\ acc' = [acc EXCEPT ![th].stack =
                              Append(st, [op |-> op, tag |-> b.tag, guard |-> g,
                                          free |-> fr, got |-> "none",
                                          got0 |-> Local(cell),
                                          copy |-> Local(cell)]),
                                       ![th].last = NoOutcome]
                /\ cell' = [cell EXCEPT !.fresh = FALSE]
          /\ b.kind = "none" =>
                /\ k = 0
                /\ acc' = [acc EXCEPT ![th].last = [out EXCEPT !.res = "None"]]
                /\ cell' = [cell EXCEPT !.fresh = FALSE]
          /\ b.kind = "panic" =>
                /\ k <= Len(st)
                /\ acc' = [acc EXCEPT ![th].stack = SubSeq(st, 1, Len(st) - k),
                                       ![th].last = [out EXCEPT !.res = "Panic",
                                                               !.cause = "held",
                                                               !.was = cell.val]]
                /\ cell' = AfterPanic([cell EXCEPT !.fresh = FALSE], Unwound(st, k))
    /\ UNCHANGED container

\* Thread th calls the blocking operation op while another thread holds a
\* guard that is in its way: lock / read / write park the thread.
access_blocks(th, op) ==
    /\ MayAccess(th) /\ op \in OpsOf(cell.backing)
    /\ acc[th].want = "none"
    /\ Len(acc[th].stack) < MaxNest
    /\ Begin(th, op).kind = "wait"
    /\ acc' = [acc EXCEPT ![th].want = op, ![th].last = NoOutcome]
    /\ cell' = [cell EXCEPT !.fresh = FALSE]
    /\ UNCHANGED container

\* lock / read / write of a parked thread returns once no guard is in its
\* way: the match hands the guard to the closure, with the tag of the
\* poison flag.
access_wakes(th) ==
    /\ acc[th].want # "none"
    /\ LET op == acc[th].want
           b  == Begin(th, op)
       IN /\ b.kind = "run"
          /\ acc' = [acc EXCEPT ![th].stack =
                        Append(@, [op |-> op, tag |-> b.tag,
                                   guard |-> GuardOf(cell.backing, op),
                                   free |-> FALSE, got |-> "none",
                                   got0 |-> Local(cell), copy |-> Local(cell)]),
                                 ![th].want = "none"]
          /\ cell' = cell
    /\ UNCHANGED container

\* The closure of the innermost access of thread th returns: the guard is
\* dropped and the operation returns what the closure returned.
closure_returns(th) ==
    /\ acc[th].stack # <<>>
    /\ LET st == acc[th].stack
           f  == st[Len(st)]
       IN /\ acc' = [acc EXCEPT ![th].stack = SubSeq(st, 1, Len(st) - 1),
                                 ![th].last = [op |-> f.op, res |-> "Ran", tag |-> f.tag,
                                               cause |-> "none", free |-> f.free,
                                               got0 |-> f.got0, copy |-> f.copy,
                                               was |-> cell.val]]
          /\ cell' = [StoreBack(cell, f) EXCEPT
                         !.poison = GuardDrop(@, cell.backing, f.guard, FALSE)]
    /\ UNCHANGED container

\* The closure of the innermost access of thread th, an exclusive one,
\* writes v through the reference it was handed: to the copy when the
\* instance is a Cell, to the guarded value otherwise.
closure_writes(th, v) ==
    /\ acc[th].stack # <<>>
    /\ LET st == acc[th].stack
           f  == st[Len(st)]
       IN /\ f.op \in ExclusiveOps
          /\ IF cell.backing = "Cell"
             THEN /\ v # f.copy
                  /\ acc' = [acc EXCEPT ![th].stack[Len(st)].copy = v]
                  /\ cell' = cell
             ELSE /\ v # cell.val
                  /\ acc' = acc
                  /\ cell' = [cell EXCEPT !.val = v]
    /\ UNCHANGED container

\* A panic raised in the closure of the innermost access of thread th
\* unwinds k of its accesses, each dropping its guard.
Panics(th, k, cause) ==
    LET st == acc[th].stack
        f  == st[Len(st)]
    IN /\ k \in 1..Len(st)
       /\ acc' = [acc EXCEPT ![th].stack = SubSeq(st, 1, Len(st) - k),
                              ![th].last = [op |-> f.op, res |-> "Panic", tag |-> f.tag,
                                            cause |-> cause, free |-> f.free,
                                            got0 |-> f.got0, copy |-> f.copy,
                                            was |-> cell.val]]
       /\ cell' = AfterPanic(cell, Unwound(st, k))

\* The closure panics on its own.
closure_panics(th, k) ==
    /\ acc[th].stack # <<>>
    /\ Panics(th, k, "closure")
    /\ UNCHANGED container

\* The closure calls assert_healthy on what it was given: it goes on with
\* the value, or the panic of assert_healthy unwinds it.
closure_assert_healthy(th, k) ==
    /\ acc[th].stack # <<>>
    /\ LET st == acc[th].stack
           f  == st[Len(st)]
       IN /\ f.got = "none"
          /\ IF assert_healthy(f.tag) = "value"
             THEN /\ k = 1
                  /\ acc' = [acc EXCEPT ![th].stack[Len(st)].got = "assert_healthy"]
                  /\ cell' = cell
             ELSE Panics(th, k, "assert_healthy")
    /\ UNCHANGED container

\* The closure calls unpoison on what it was given and goes on with the
\* value.
closure_unpoison(th) ==
    /\ acc[th].stack # <<>>
    /\ LET st == acc[th].stack
           f  == st[Len(st)]
       IN /\ f.got = "none"
          /\ unpoison(f.tag) = "value"
          /\ acc' = [acc EXCEPT ![th].stack[Len(st)].got = "unpoison"]
          /\ cell' = cell
    /\ UNCHANGED container

\* ------------------------------------------------------------------ lib.rs
\* ServiceContainer::empty() of lib.rs: no singleton is stored, no custom
\* constructor is registered; ub tells that the program has left defined
\* behaviour.
NoLib == [singletons |-> <<>>, ctors |-> [t \in Types |-> "absent"], ub |-> FALSE]

\* self.constructors ... ctors.get(&key): Some(ctors) or None.
CtorsOf(l, t) == IF l.ctors[t] = "absent" THEN "None" ELSE "Some"

\* The constructor resolve_singleton calls for t: the transmuted
\* ctors.singleton when there is an entry of constructors for t, a function
\* only if that field is Some; else T::construct_singleton.
SingletonCtor(l, t) ==
    IF CtorsOf(l, t) = "None" THEN "default"
    ELSE IF l.ctors[t] \in {"singleton", "both"} THEN "custom"
    ELSE "null"

\* The constructor resolve_instance calls for t: the transmuted
\* ctors.instance when there is an entry of constructors for t, a function
\* only if that field is Some; else T::construct.
InstanceCtor(l, t) ==
    IF CtorsOf(l, t) = "None" THEN "default"
    ELSE IF l.ctors[t] \in {"instance", "both"} THEN "custom"
    ELSE "null"

\* `singleton` of remove goes out of scope at the end of the if let: the
\* Drop of SingletonPtr runs its dtor, drop_type_erased, on the pointer.
TakenPtrDrop(h, a) == rc_drop(h, a)

\* Idle or inside a constructor, which was handed the container.
LibCanCall == ~lib.ub /\ (Idle \/ Running)

\* ServiceContainer::resolve_singleton of lib.rs up to the first consumer
\* code: a stored singleton is cloned and returned, else a constructor is
\* chosen and starts.  The call of a transmuted None is a call through a
\* null function pointer: undefined behaviour, not followed further.
resolve_singleton(t) ==
    /\ LibCanCall /\ (Running => Len(stack) < MaxDepth)
    /\ IF t \in DOMAIN lib.singletons
       THEN LET a == lib.singletons[t] IN
            /\ heap[a].strong < MaxStrong
            /\ heap' = rc_clone(heap, a)
            /\ handles' = [handles EXCEPT ![a] = @ + 1]
            /\ ret' = [NoRet EXCEPT !.kind = "Ok", !.val = a, !.depth = Len(stack) + 1,
                          !.fr = [NoFrame EXCEPT !.op = "singleton", !.ty = t,
                                                 !.src = "cached", !.inst = a]]
            /\ UNCHANGED <<stack, lib>>
       ELSE /\ ret' = NoRet
            /\ UNCHANGED <<heap, handles>>
            /\ IF SingletonCtor(lib, t) = "null"
               THEN /\ lib' = [lib EXCEPT !.ub = TRUE]
                    /\ stack' = Append(stack,
                                   [NoFrame EXCEPT !.op = "singleton", !.ty = t,
                                                   !.pc = "ctor", !.src = "null",
                                                   !.calls = <<"null">>])
               ELSE /\ stack' = Append(stack,
                                   [NoFrame EXCEPT !.op = "singleton", !.ty = t,
                                                   !.pc = "ctor",
                                                   !.src = SingletonCtor(lib, t),
                                                   !.calls = <<SingletonCtor(lib, t)>>])
                    /\ lib' = lib
    /\ UNCHANGED <<phase, services, kept, held, script, cell, acc>>

\* The constructor of resolve_singleton returns its pointer: a clone is
\* erased and put into the map, where it replaces, and drops, a pointer a
\* nested resolution has stored; the pointer is returned.
SingletonCtorReturn ==
    /\ ~lib.ub /\ Running /\ Top.op = "singleton" /\ Top.pc = "ctor"
    /\ NextAddr(heap) <= MaxAlloc
    /\ LET a  == NextAddr(heap)
           t  == Top.ty
           h2 == rc_clone(rc_new(heap, t), a)
       IN /\ heap' = IF t \in DOMAIN lib.singletons
                     THEN rc_drop(h2, lib.singletons[t]) ELSE h2
          /\ lib' = [lib EXCEPT !.singletons =
                        [x \in DOMAIN lib.singletons \cup {t} |->
                            IF x = t THEN a ELSE lib.singletons[x]]]
          /\ handles' = handles @@ (a :> 1)
          /\ kept' = kept @@ (a :> 0)
          /\ stack' = Pop
          /\ ret' = [NoRet EXCEPT !.kind = "Ok", !.val = a, !.depth = Len(stack),
                                  !.fr = [Top EXCEPT !.inst = a]]
    /\ UNCHANGED <<phase, services, held, script, cell, acc>>

\* ServiceContainer::resolve_instance of lib.rs up to the first consumer
\* code: a constructor is chosen and starts.
resolve_instance(t) ==
    /\ LibCanCall /\ (Running => Len(stack) < MaxDepth)
    /\ stack' = Append(stack,
                    [NoFrame EXCEPT !.op = "instance", !.ty = t, !.pc = "ctor",
                                    !.src = InstanceCtor(lib, t),
                                    !.calls = <<InstanceCtor(lib, t)>>])
    /\ lib' = [lib EXCEPT !.ub = InstanceCtor(lib, t) = "null"]
    /\ ret' = NoRet
    /\ UNCHANGED <<phase, services, heap, handles, kept, held, script, cell, acc>>

\* The constructor of resolve_instance returns: Instance { instance } is
\* returned, nothing is stored.
InstanceCtorReturn ==
    /\ ~lib.ub /\ Running /\ Top.op = "instance" /\ Top.pc = "ctor"
    /\ stack' = Pop
    /\ ret' = [NoRet EXCEPT !.kind = "Ok", !.depth = Len(stack), !.fr = Top]
    /\ UNCHANGED <<phase, services, heap, handles, kept, outside>>

\* The caller of a nested resolution goes on with what it got.
singleton_taken ==
    /\ ~lib.ub /\ stack # <<>> /\ ret.kind = "Ok"
    /\ ret' = NoRet
    /\ UNCHANGED <<phase, services, heap, handles, kept, stack, outside>>

\* ServiceContainer::remove of lib.rs: None (val 0) when t is not stored;
\* else the entry is taken out of the map, the pointer is rebuilt from it
\* without a clone and returned, and the entry taken out is dropped.
remove(t) ==
    /\ LibCanCall
    /\ LET f == [NoFrame EXCEPT !.op = "remove", !.ty = t] IN
       IF t \in DOMAIN lib.singletons
       THEN LET a == lib.singletons[t] IN
            /\ lib' = [lib EXCEPT !.singletons =
                          [x \in DOMAIN lib.singletons \ {t} |-> lib.singletons[x]]]
            /\ handles' = [handles EXCEPT ![from_ptr(a)] = @ + 1]
            /\ heap' = TakenPtrDrop(heap, a)
            /\ ret' = [NoRet EXCEPT !.kind = "Ok", !.val = a, !.depth = Len(stack) + 1,
                                    !.fr = [f EXCEPT !.inst = a]]
       ELSE /\ ret' = [NoRet EXCEPT !.kind = "Ok", !.val = 0, !.depth = Len(stack) + 1,
                                    !.fr = f]
            /\ UNCHANGED <<lib, handles, heap>>
    /\ UNCHANGED <<phase, services, kept, stack, held, script, cell, acc>>

\* A holder drops a Singleton it has; the drop of a pointer whose
\* allocation was freed is undefined behaviour.
drop_singleton(a) ==
    /\ ~lib.ub /\ Idle
    /\ a \in DOMAIN handles /\ handles[a] > 0
    /\ handles' = [handles EXCEPT ![a] = @ - 1]
    /\ IF heap[a].strong > 0
       THEN heap' = rc_drop(heap, a) /\ lib' = lib
       ELSE heap' = heap /\ lib' = [lib EXCEPT !.ub = TRUE]
    /\ ret' = NoRet
    /\ UNCHANGED <<phase, services, kept, stack, held, script, cell, acc>>

\* -------------------------------------------------------------------- Init
Init ==
    /\ phase = "building"
    /\ services = <<>>
    /\ heap = <<>>
    /\ handles = <<>>
    /\ kept = <<>>
    /\ stack = <<>>
    /\ ret = NoRet
    /\ held = {}
    /\ script = NoScript
    /\ cell = NoCell
    /\ acc = NoAcc
    /\ lib = NoLib

\* --------------------------------------------------------------- builder
\* ContainerBuilder::with_shared: stores the erased pointer in the entry;
\* the SharedPtr the field held before is dropped by the assignment.
with_shared(t) ==
    /\ phase = "building"
    /\ NextAddr(heap) <= MaxAlloc
    /\ LET a  == NextAddr(heap)
           h1 == rc_new(heap, t)
           m1 == OrDefault(services, t)
           old == m1[t].shared_ptr
       IN /\ services' = [m1 EXCEPT ![t].shared_ptr = SharedPtr_new(a)]
          /\ heap' = IF old # 0 THEN drop_from_ptr(h1, old) ELSE h1
          /\ handles' = handles @@ (a :> 0)
          /\ kept' = kept @@ (a :> 0)
    /\ UNCHANGED <<phase, stack, ret, outside>>

\* ContainerBuilder::with_shared_constructor
with_shared_constructor(t) ==
    /\ phase = "building"
    /\ services' = [OrDefault(services, t) EXCEPT ![t].shared_ctor = "custom"]
    /\ UNCHANGED <<phase, heap, handles, kept, stack, ret, outside>>

\* ContainerBuilder::with_local_constructor (with_owned_constructor in the
\* tests of container.rs): the override of the owned resolution.
with_owned_constructor(t) ==
    /\ phase = "building"
    /\ services' = [OrDefault(services, t) EXCEPT ![t].owned_ctor = "custom"]
    /\ UNCHANGED <<phase, heap, handles, kept, stack, ret, outside>>

\* ContainerBuilder::build / ServiceContainer::new_built: the map moves.
build ==
    /\ phase = "building"
    /\ phase' = "built"
    /\ UNCHANGED <<services, heap, handles, kept, stack, ret, outside>>

\* ------------------------------------------------------------- container
\* A resolve call may start at top level, or inside a running constructor
\* or hook through its Resolver.
CanCall ==
    /\ phase = "built"
    /\ \/ Idle
       \/ Running /\ Len(stack) < DepthBound

\* Constructor a frame of source src calls.
CtorName(src) == IF src = "override" THEN "custom" ELSE "default"

\* ServiceContainer::resolve_shared up to the first consumer code: the
\* match; a cached pointer is cloned and the hook starts, otherwise the
\* chosen constructor starts.
resolve_shared(t) ==
    /\ CanCall
    /\ LET src == SharedSource(services, t)
           ptr == IF src = "cached" THEN services[t].shared_ptr ELSE 0
           f0  == [NoFrame EXCEPT !.op = "shared", !.ty = t, !.pc = "ctor",
                                  !.src = src, !.inst = ptr,
                                  !.pre = Snap(services, t), !.prev = Prev(t),
                                  !.known = IF Prev(t) = "Err" THEN ret.fr.deps
                                            ELSE {},
                                  !.calls = IF src = "cached" THEN <<>>
                                            ELSE <<CtorName(src)>>]
           f   == IF src = "cached" THEN CallHook(f0) ELSE f0
       IN /\ src = "cached" => heap[ptr].strong < MaxStrong
          /\ stack' = Append(stack, f)
          /\ heap' = IF src = "cached" THEN clone_from_ptr(heap, ptr) ELSE heap
    /\ services' = Lookup(services, t)
    /\ ret' = NoRet
    /\ UNCHANGED <<phase, handles, kept, outside>>

\* ServiceContainer::resolve_owned up to the first consumer code.
resolve_owned(t, p) ==
    /\ CanCall
    /\ LET src == OwnedSource(services, t)
           f   == [NoFrame EXCEPT !.op = "owned", !.ty = t, !.pc = "ctor",
                                  !.src = src, !.params = p, !.arg = CtorArg(p),
                                  !.pre = Snap(services, t),
                                  !.calls = <<CtorName(src)>>]
       IN stack' = Append(stack, f)
    /\ services' = Lookup(services, t)
    /\ ret' = NoRet
    /\ UNCHANGED <<phase, heap, handles, kept, outside>>

\* The constructor of a shared call returns Ok(Rc::new(..)).  The engine
\* clones the instance and inserts the clone; insert panics when the type
\* was cached meanwhile, and the unwinding drops the clone, the instance
\* and the instances held by the enclosing calls.  Otherwise the hook of
\* the type starts.
SharedCtorOk ==
    /\ CodeEnds /\ Top.op = "shared" /\ Top.pc = "ctor"
    /\ NextAddr(heap) <= MaxAlloc
    /\ LET a   == NextAddr(heap)
           h2  == rc_clone(rc_new(heap, Top.ty), a)
           ins == Insert(services, Top.ty, a)
       IN /\ services' = ins.map
          /\ handles' = handles @@ (a :> 0)
          /\ kept' = kept @@ (a :> 0)
          /\ IF ins.ok
             THEN /\ heap' = h2
                  /\ stack' = Append(MarkReent(Pop, Top.ty),
                                      CallHook([Top EXCEPT !.inst = a]))
                  /\ ret' = NoRet
             ELSE /\ heap' = DropFrames(rc_drop(rc_drop(h2, a), a), stack)
                  /\ stack' = <<>>
                  /\ ret' = [NoRet EXCEPT !.kind = "Panic", !.val = a,
                                          !.depth = Len(stack), !.fr = Top]
    /\ UNCHANGED <<phase, outside>>

\* The constructor of an owned call returns Ok(value), a value that did
\* not exist before: the hook starts.
OwnedCtorOk ==
    /\ Running /\ Top.op = "owned" /\ Top.pc = "ctor"
    /\ stack' = SetTop(CallHook([Top EXCEPT !.inst = OwnedInstance(Top, NewOwned(stack))]))
    /\ UNCHANGED <<phase, services, heap, handles, kept, ret, outside>>

\* The engine's step after the constructor of the innermost frame has
\* returned Err(e): the call returns Err(e) to its caller.
ReturnErr(e, orig, from) ==
    IF OnCtorErr(Top) = "return"
    THEN /\ stack' = Pop
         /\ ret' = [kind |-> "Err", val |-> 0, err |-> Propagate(e), orig |-> orig,
                    from |-> from, depth |-> Len(stack), fr |-> Top]
    ELSE /\ stack' = SetTop([Top EXCEPT !.calls = Append(@, "default")])
         /\ ret' = NoRet

\* The constructor returns an error of its own; the `?` of the engine
\* returns it from the resolve call.
CtorErr(e) ==
    /\ Running /\ Top.pc = "ctor"
    /\ ReturnErr(e, e, Len(stack))
    /\ UNCHANGED <<phase, services, heap, handles, kept, outside>>

\* The hook returns: the call returns Ok(instance) to its caller, who holds
\* the instance from then on.
HookReturn ==
    /\ CodeEnds /\ Top.pc = "hook"
    /\ stack' = Pop
    /\ ret' = [kind |-> "Ok", val |-> Top.inst,
               err |-> "none", orig |-> "none", from |-> 0,
               depth |-> Len(stack), fr |-> Top]
    /\ handles' = IF Top.op = "shared" THEN [handles EXCEPT ![Top.inst] = @ + 1]
                  ELSE handles
    /\ UNCHANGED <<phase, services, heap, kept, outside>>

\* A constructor or hook goes on after a nested resolution that succeeded:
\* it has the instance Resolver::shared or Resolver::owned returned.
TakeOk ==
    /\ stack # <<>> /\ ret.kind = "Ok"
    /\ stack' = IF ret.fr.op = "shared" /\ Top.op = "shared" /\ Top.pc = "ctor"
                THEN SetTop([Top EXCEPT !.deps = @ \cup {[ty |-> ret.fr.ty,
                                                         inst |-> ret.val]}])
                ELSE stack
    /\ ret' = NoRet
    /\ UNCHANGED <<phase, services, heap, handles, kept, outside>>

\* A constructor hands the error of a nested resolution on with `?`; the
\* engine returns it from the enclosing resolve call.
TakeErrPropagate ==
    /\ stack # <<>> /\ ret.kind = "Err" /\ Top.pc = "ctor"
    /\ ReturnErr(ret.err, ret.orig, ret.from)
    /\ UNCHANGED <<phase, services, heap, handles, kept, outside>>

\* A constructor or hook handles the error of a nested resolution itself.
TakeErrHandle ==
    /\ stack # <<>> /\ ret.kind = "Err"
    /\ ret' = NoRet
    /\ UNCHANGED <<phase, services, heap, handles, kept, stack, outside>>

\* ServiceContainer::insert called by the application with a new Rc, of
\* which it keeps a clone or not.  A failed assert unwinds and drops the
\* pointer that was passed.
insert(t, keep) ==
    /\ phase = "built" /\ Idle
    /\ NextAddr(heap) <= MaxAlloc
    /\ LET a   == NextAddr(heap)
           h1  == IF keep THEN rc_clone(rc_new(heap, t), a) ELSE rc_new(heap, t)
           ins == Insert(services, t, a)
           f   == [NoFrame EXCEPT !.op = "insert", !.ty = t, !.inst = a,
                                  !.pre = Snap(services, t)]
       IN /\ services' = ins.map
          /\ handles' = handles @@ (a :> 0)
          /\ kept' = kept @@ (a :> IF keep THEN 1 ELSE 0)
          /\ heap' = IF ins.ok THEN h1 ELSE rc_drop(h1, a)
          /\ ret' = [NoRet EXCEPT !.kind = IF ins.ok THEN "Ok" ELSE "Panic",
                                  !.val = a, !.fr = f]
    /\ UNCHANGED <<phase, stack, outside>>

\* A holder drops a handle it got from resolve_shared.
drop_handle(a) ==
    /\ Idle
    /\ a \in DOMAIN handles /\ handles[a] > 0
    /\ handles' = [handles EXCEPT ![a] = @ - 1]
    /\ heap' = rc_drop(heap, a)
    /\ ret' = NoRet
    /\ UNCHANGED <<phase, services, kept, stack, outside>>

\* The application drops the clone it kept of a pointer it inserted.
drop_kept(a) ==
    /\ Idle
    /\ a \in DOMAIN kept /\ kept[a] > 0
    /\ kept' = [kept EXCEPT ![a] = @ - 1]
    /\ heap' = rc_drop(heap, a)
    /\ ret' = NoRet
    /\ UNCHANGED <<phase, services, handles, stack, outside>>

\* Addresses the container holds a SharedPtr of.
Held(m) == {m[t].shared_ptr : t \in DOMAIN m} \ {0}

\* Drop of the container: every SharedPtr of the map runs its dtor.
drop_container ==
    /\ phase = "built" /\ Idle
    /\ phase' = "dropped"
    /\ heap' = [a \in DOMAIN heap |->
                  IF a \in Held(services) THEN drop_from_ptr(heap, a)[a] ELSE heap[a]]
    /\ services' = <<>>
    /\ ret' = NoRet
    /\ UNCHANGED <<handles, kept, stack, outside>>

\* A holder of the instance at a writes v to it through an exclusive
\* access: the application through a handle it resolved or a pointer it
\* kept, or the hook of the type through the instance it was handed.
holder_writes(a, v) ==
    /\ Idle \/ Running
    /\ a \in DOMAIN heap /\ heap[a].strong > 0
    /\ \/ handles[a] > 0
       \/ kept[a] > 0
       \/ stack # <<>> /\ Top.op = "shared" /\ Top.pc = "hook" /\ Top.inst = a
    /\ v # heap[a].val
    /\ heap' = [heap EXCEPT ![a].val = v]
    /\ UNCHANGED <<phase, services, handles, kept, stack, ret, outside>>

\* The caller of a resolve_owned that has returned holds on to the
\* instance it got.
keep_owned ==
    /\ Idle /\ ret.kind = "Ok" /\ ret.fr.op = "owned"
    /\ Cardinality(held) < MaxHeld
    /\ held' = held \cup {[id |-> ret.val, ty |-> ret.fr.ty]}
    /\ ret' = NoRet
    /\ UNCHANGED <<phase, services, heap, handles, kept, stack, script, cell, acc, lib>>

\* A caller drops an owned instance it held.
drop_owned(h) ==
    /\ Idle /\ h \in held
    /\ held' = held \ {h}
    /\ ret' = NoRet
    /\ UNCHANGED <<phase, services, heap, handles, kept, stack, script, cell, acc, lib>>

Next ==
    \/ \E t \in Types : with_shared(t)
    \/ \E t \in Types : with_shared_constructor(t)
    \/ \E t \in Types : with_owned_constructor(t)
    \/ build
    \/ \E t \in Types : resolve_shared(t)
    \/ \E t \in Types, p \in Params : resolve_owned(t, p)
    \/ SharedCtorOk
    \/ OwnedCtorOk
    \/ \E e \in Errors : CtorErr(e)
    \/ HookReturn
    \/ TakeOk
    \/ TakeErrPropagate
    \/ TakeErrHandle
    \/ \E t \in Types, keep \in BOOLEAN : insert(t, keep)
    \/ \E a \in 1..MaxAlloc : drop_handle(a)
    \/ \E a \in 1..MaxAlloc : drop_kept(a)
    \/ drop_container

Spec == Init /\ [][Next]_vars

\* An application that also writes to the shared instances it holds.
ValueNext ==
    \/ \E t \in Types : with_shared(t)
    \/ \E t \in Types : with_shared_constructor(t)
    \/ build
    \/ \E t \in Types : resolve_shared(t)
    \/ \E t \in Types, p \in Params : resolve_owned(t, p)
    \/ SharedCtorOk
    \/ OwnedCtorOk
    \/ HookReturn
    \/ TakeOk
    \/ \E t \in Types, keep \in BOOLEAN : insert(t, keep)
    \/ \E a \in 1..MaxAlloc : drop_handle(a)
    \/ \E a \in 1..MaxAlloc : drop_kept(a)
    \/ drop_container
    \/ \E a \in 1..MaxAlloc, v \in Values : holder_writes(a, v)

ValueSpec == Init /\ [][ValueNext]_vars

\* Resolver::shared called by a constructor or hook for a dependency.
dependency(t) == Running /\ resolve_shared(t)

\* An application that resolves owned services, whose constructors and
\* hooks may resolve shared dependencies, and keeps what it gets.
OwnedNext ==
    \/ \E t \in Types : with_owned_constructor(t)
    \/ build
    \/ \E t \in Types : dependency(t)
    \/ \E t \in Types, p \in Params : resolve_owned(t, p)
    \/ SharedCtorOk
    \/ OwnedCtorOk
    \/ \E e \in Errors : CtorErr(e)
    \/ HookReturn
    \/ TakeOk
    \/ TakeErrPropagate
    \/ TakeErrHandle
    \/ keep_owned
    \/ \E h \in held : drop_owned(h)

OwnedSpec == Init /\ [][OwnedNext]_vars

\* An application with services of fixed code and a container without
\* overrides.
CycleInit ==
    /\ phase = "building"
    /\ services = <<>>
    /\ heap = <<>>
    /\ handles = <<>>
    /\ kept = <<>>
    /\ stack = <<>>
    /\ ret = NoRet
    /\ held = {}
    /\ script \in Scripts
    /\ cell = NoCell
    /\ acc = NoAcc
    /\ lib = NoLib

\* The application asks the container for a shared service.
request(t) == Idle /\ resolve_shared(t)

\* The code of the innermost frame resolves its dependency.
resolve_dep == Running /\ Dep(Top) # "none" /\ resolve_shared(Dep(Top))

CycleNext ==
    \/ build
    \/ \E t \in Types : request(t)
    \/ resolve_dep
    \/ SharedCtorOk
    \/ HookReturn
    \/ \E a \in 1..MaxAlloc : drop_handle(a)

CycleSpec == CycleInit /\ [][CycleNext]_vars

\* A ServiceContainer of lib.rs with any custom constructors registered.
LibInit ==
    /\ phase = "built"
    /\ services = <<>>
    /\ heap = <<>>
    /\ handles = <<>>
    /\ kept = <<>>
    /\ stack = <<>>
    /\ ret = NoRet
    /\ held = {}
    /\ script = NoScript
    /\ cell = NoCell
    /\ acc = NoAcc
    /\ lib \in {[NoLib EXCEPT !.ctors = c] : c \in [Types -> CtorKinds]}

LibNext ==
    \/ \E t \in Types : resolve_singleton(t)
    \/ SingletonCtorReturn
    \/ \E t \in Types : resolve_instance(t)
    \/ InstanceCtorReturn
    \/ singleton_taken
    \/ \E t \in Types : remove(t)
    \/ \E a \in 1..MaxAlloc : drop_singleton(a)

LibSpec == LibInit /\ [][LibNext]_vars

\* An instance of any backing, healthy and not accessed, beside a
\* container that is not used.
AccessInit ==
    /\ phase = "building"
    /\ services = <<>>
    /\ heap = <<>>
    /\ handles = <<>>
    /\ kept = <<>>
    /\ stack = <<>>
    /\ ret = NoRet
    /\ held = {}
    /\ script = NoScript
    /\ cell \in {[NoCell EXCEPT !.backing = b] : b \in Backings}
    /\ acc = NoAcc
    /\ lib = NoLib

AccessNext ==
    \/ \E th \in Threads, op \in SharedOps \cup ExclusiveOps, k \in 0..MaxNest :
          access_call(th, op, k)
    \/ \E th \in Threads : closure_returns(th)
    \/ \E th \in Threads, k \in 1..MaxNest : closure_panics(th, k)
    \/ \E th \in Threads, k \in 1..MaxNest : closure_assert_healthy(th, k)
    \/ \E th \in Threads : closure_unpoison(th)

AccessSpec == AccessInit /\ [][AccessNext]_vars

\* An instance backed by a Cell or a RefCell that guards any value; the
\* closures of exclusive accesses write.
CellInit ==
    /\ phase = "building"
    /\ services = <<>>
    /\ heap = <<>>
    /\ handles = <<>>
    /\ kept = <<>>
    /\ stack = <<>>
    /\ ret = NoRet
    /\ held = {}
    /\ script = NoScript
    /\ cell \in {[NoCell EXCEPT !.backing = b, !.val = v] :
                    b \in {"Cell", "RefCell"}, v \in Values}
    /\ acc = NoAcc
    /\ lib = NoLib

CellNext ==
    \/ AccessNext
    \/ \E th \in Threads, v \in Values : closure_writes(th, v)

CellSpec == CellInit /\ [][CellNext]_vars

\* A Mutex or a RwLock that threads access from outside any closure, a
\* blocking operation parking its thread while the lock is not to be had.
WaitInit ==
    /\ phase = "building"
    /\ services = <<>>
    /\ heap = <<>>
    /\ handles = <<>>
    /\ kept = <<>>
    /\ stack = <<>>
    /\ ret = NoRet
    /\ held = {}
    /\ script = NoScript
    /\ cell \in {[NoCell EXCEPT !.backing = b] : b \in LockBackings}
    /\ acc = NoAcc
    /\ lib = NoLib

\* The closure of thread th comes to its end, by a return or by a panic.
closure_ends(th) ==
    \/ closure_returns(th)
    \/ closure_panics(th, 1)

\* Thread th calls op from outside any closure.
top_call(th, op) == acc[th].stack = <<>> /\ access_call(th, op, 0)

\* Thread th calls op from outside any closure and is parked.
top_blocks(th, op) == acc[th].stack = <<>> /\ access_blocks(th, op)

WaitNext ==
    \/ \E th \in Threads, op \in SharedOps \cup ExclusiveOps : top_call(th, op)
    \/ \E th \in Threads, op \in SharedOps \cup ExclusiveOps : top_blocks(th, op)
    \/ \E th \in Threads : access_wakes(th)
    \/ \E th \in Threads : closure_ends(th)
    \/ \E th \in Threads : closure_unpoison(th)

\* Every closure ends, and a parked thread that can have the lock again
\* and again gets it.
WaitFair ==
    \A th \in Threads : WF_vars(closure_ends(th)) /\ SF_vars(access_wakes(th))

WaitSpec == WaitInit /\ [][WaitNext]_vars /\ WaitFair

\* ------------------------------------------------------------ properties
\* Every frame a state shows: the calls in progress and the call that
\* ended last.
AllFrames == {stack[i] : i \in DOMAIN stack} \cup {ret.fr}

SharedFrames == {f \in AllFrames : f.op = "shared"}

\* shared_ptr of the entry of t, 0 when there is none.
Cached(t) == Snap(services, t).shared_ptr

\* Addresses of the live handles resolve_shared<t> has returned.
HandlesOf(t) == {a \in DOMAIN heap : heap[a].ty = t /\ handles[a] > 0}

\* Owners of allocation a: the map (of the container or of the builder),
\* the handles returned by resolve_shared, the clones kept by the creator
\* and the instances held by the calls in progress.
Owners(a) ==
    (IF a \in Held(services) THEN 1 ELSE 0) + handles[a] + kept[a] + FrameHolds(stack, a)

\* C1: the live handles that successful resolve_shared<S> calls returned
\* all point to one allocation, which is the one the entry of S holds; an
\* instance pre-seeded with insert<S> is the one the entry holds, so the
\* handles are identity-equal to it.
C1_SameInstance ==
    /\ \A t \in Types :
          /\ Cardinality(HandlesOf(t)) <= 1
          /\ phase = "built" => HandlesOf(t) \subseteq {Cached(t)}
    /\ ret.kind = "Ok" /\ ret.fr.op = "shared" =>
          /\ ret.val \in HandlesOf(ret.fr.ty)
          /\ Cached(ret.fr.ty) = ret.val
    /\ ret.kind = "Ok" /\ ret.fr.op = "insert" => Cached(ret.fr.ty) = ret.val

\* A second resolve_shared<S> has returned the address the first returned.
C1_Witness ==
    /\ ret.kind = "Ok" /\ ret.fr.op = "shared" /\ ret.fr.src = "cached"
    /\ handles[ret.val] = 2

\* C2 as claimed: a resolve_shared<S> call that follows a call in which
\* the shared constructor of S was invoked does not invoke it again, so
\* that the constructor is invoked at most once.
C2_AtMostOnce ==
    \A f \in SharedFrames : f.prev # "none" => f.calls = <<>>

\* C2 amended: a resolve_shared<S> call invokes the shared constructor of S
\* at most once and not at all when S is resolved as it starts, be it
\* after a call that constructed S or after one that panicked on a
\* re-entrantly cached S; only a call that starts with S unresolved
\* invokes the constructor.
C2_NotOnceResolved ==
    \A f \in SharedFrames :
        /\ Len(f.calls) <= 1
        /\ f.pre.shared_ptr # 0 => f.calls = <<>>
        /\ f.prev \in {"Ok", "Panic"} => f.calls = <<>>

\* A resolve_shared<S> that follows the call that constructed S has
\* returned without invoking the constructor.
C2_Witness ==
    /\ ret.kind = "Ok" /\ ret.fr.op = "shared"
    /\ ret.fr.prev = "Ok" /\ ret.fr.calls = <<>>

\* C3 as claimed: when resolve_shared<S> has returned Err, S is unresolved.
C3_ErrLeavesUnresolved ==
    ret.kind = "Err" /\ ret.fr.op = "shared" => Cached(ret.fr.ty) = 0

\* C3 amended: when resolve_shared<S> has returned Err and no
\* resolve_shared<S> nested in that call cached S, S is unresolved; the
\* next resolve_shared<S> then invokes the constructor again (no error is
\* cached) and returns Ok with the instance it has newly cached, or the new
\* error of the constructor.
C3_RetryAfterErr ==
    /\ ret.kind = "Err" /\ ret.fr.op = "shared" /\ ~ret.fr.reent => Cached(ret.fr.ty) = 0
    /\ \A f \in SharedFrames :
          f.prev = "Err" /\ f.pre.shared_ptr = 0 => Len(f.calls) = 1
    /\ ret.fr.op = "shared" /\ ret.fr.prev = "Err" /\ ret.fr.calls # <<>> =>
          /\ ret.kind = "Ok" =>
                /\ Cached(ret.fr.ty) = ret.val
                /\ ret.val # 0 /\ ret.val # ret.fr.pre.shared_ptr
          /\ ret.kind = "Err" => ret.err = ret.orig /\ ret.err \in Errors

\* A resolve_shared<S> that follows a failed one has constructed and cached S.
C3_Witness ==
    /\ ret.kind = "Ok" /\ ret.fr.op = "shared" /\ ret.fr.prev = "Err"
    /\ ret.fr.calls # <<>> /\ Cached(ret.fr.ty) = ret.val

\* C4 as claimed: when resolve_shared<S> has returned Err, the entry of S
\* is what it was when the call started.
C4_ErrLeavesEntry ==
    ret.kind = "Err" /\ ret.fr.op = "shared" => Snap(services, ret.fr.ty) = ret.fr.pre

\* C4 amended: when resolve_shared<S> has returned Err, both overrides of S
\* are what they were when the call started, and so is the whole entry
\* (absent if it was absent, resolved_handle absent) unless a
\* resolve_shared<S> nested in the call cached S.
C4_ErrFrame ==
    ret.kind = "Err" /\ ret.fr.op = "shared" =>
        LET now == Snap(services, ret.fr.ty) IN
        /\ now.shared_ctor = ret.fr.pre.shared_ctor
        /\ now.owned_ctor = ret.fr.pre.owned_ctor
        /\ ret.fr.pre.shared_ptr = 0
        /\ ~ret.fr.reent => now = ret.fr.pre
        /\ ret.fr.reent => now.present /\ now.shared_ptr # 0

\* A top-level resolve_shared<S> has returned Err and the map has no entry
\* for S.
C4_Witness ==
    /\ ret.kind = "Err" /\ ret.fr.op = "shared" /\ ret.depth = 1
    /\ ~ret.fr.pre.present /\ ret.fr.ty \notin DOMAIN services

\* An insert step: the application's insert<S> has ended.
InsertStep == ret'.fr.op = "insert" /\ ret' # ret

\* C5: insert<S>(p) panics exactly when S has a resolved handle; the entry
\* then keeps the handle it had, the strong count of that instance is
\* unchanged, and p is released: what is left of its count are the clones
\* its creator kept.
C5_InsertRejected ==
    [][InsertStep =>
        LET t == ret'.fr.ty
            old == Cached(t)
        IN /\ ret'.kind = "Panic" <=> old # 0
           /\ ret'.kind = "Panic" =>
                 /\ services' = services
                 /\ heap'[old] = heap[old]
                 /\ heap'[ret'.val].strong = kept'[ret'.val]
                 /\ kept'[ret'.val] = 0 => heap'[ret'.val].dropped = 1]_vars

\* insert<S> has panicked on a resolved S and the pointer it was passed is
\* freed.
C5_Witness ==
    /\ ret.kind = "Panic" /\ ret.fr.op = "insert"
    /\ Cached(ret.fr.ty) # 0 /\ heap[ret.val].dropped = 1

\* C6: while the container lives, a resolved handle of an entry is neither
\* cleared nor replaced by any step.
C6_ResolvedIsTerminal ==
    [][\A t \in Types :
          phase = "built" /\ phase' = "built" /\ Cached(t) # 0 =>
              t \in DOMAIN services' /\ services'[t].shared_ptr = Cached(t)]_vars

\* A construction of S has ended in the panic of insert because S was
\* cached by a nested call, and S still holds that first handle.
C6_Witness ==
    /\ ret.kind = "Panic" /\ ret.fr.op = "shared"
    /\ Cached(ret.fr.ty) # 0 /\ Cached(ret.fr.ty) # ret.val

\* C7: the strong count of every allocation is the number of its live
\* owners, it is zero exactly when the destructor has run, and the
\* destructor runs once.
C7_StrongIsOwners ==
    \A a \in DOMAIN heap :
        /\ heap[a].strong = Owners(a)
        /\ heap[a].dropped = (IF heap[a].strong = 0 THEN 1 ELSE 0)

\* The container is dropped and an instance lives on in a handle.
C7_Witness ==
    /\ phase = "dropped"
    /\ \E a \in DOMAIN heap : handles[a] = 1 /\ kept[a] = 0 /\ heap[a].strong = 1

\* C8: a resolve_shared<S> call is served by one source: the cached handle
\* when S is resolved (no constructor is called), else the override when
\* one is registered (the default constructor is not called), else the
\* default constructor.
C8_SourcePriority ==
    \A f \in SharedFrames :
        /\ f.pre.shared_ptr # 0 =>
              f.src = "cached" /\ f.calls = <<>> /\ f.inst = f.pre.shared_ptr
        /\ f.pre.shared_ptr = 0 /\ f.pre.shared_ctor # "none" =>
              f.src = "override" /\ f.calls = <<"custom">>
        /\ f.pre.shared_ptr = 0 /\ f.pre.shared_ctor = "none" =>
              f.src = "default" /\ f.calls = <<"default">>

\* A resolve_shared<S> has returned the cached handle of an entry that
\* also has an override.
C8_Witness ==
    /\ ret.kind = "Ok" /\ ret.fr.op = "shared"
    /\ ret.fr.pre.shared_ptr # 0 /\ ret.fr.pre.shared_ctor = "custom"

\* C9: a call served by an override calls nothing but the override, once;
\* when the override has failed the call has returned its error.
C9_NoFallback ==
    /\ \A f \in AllFrames : f.src = "override" => f.calls = <<"custom">>
    /\ ret.kind = "Err" /\ ret.fr.src = "override" =>
          /\ ret.err = ret.orig
          /\ Len(stack) = ret.depth - 1

\* An owned resolution served by an override has returned the error of
\* the override.
C9_Witness ==
    /\ ret.kind = "Err" /\ ret.fr.op = "owned" /\ ret.fr.src = "override"
    /\ ret.from = ret.depth

\* C10: the error a resolve call returns is the error the failing
\* constructor produced, at every depth; a call that ends because its
\* constructor hands a nested error on returns that error, and the step
\* caches nothing.
C10_ErrorUnchanged ==
    /\ [](ret.kind = "Err" => ret.err = ret.orig /\ ret.err \in Errors)
    /\ [][ret.kind = "Err" /\ Len(stack') < Len(stack) =>
            /\ ret'.kind = "Err" /\ ret'.err = ret.err
            /\ ret'.from = ret.from /\ ret'.depth = ret.depth - 1
            /\ services' = services]_vars

\* The top-level call has returned the error of a constructor one level
\* down.
C10_Witness ==
    /\ ret.kind = "Err" /\ ret.depth = 1 /\ ret.from = 2
    /\ ret.err = "e2" /\ stack = <<>>

\* Frames of resolve_owned calls.
OwnedFrames == {f \in AllFrames : f.op = "owned"}

\* C11: a resolve_owned<L>(params) call invokes the constructor of L once,
\* with the parameters of its caller, and returns what that invocation
\* returned: on Ok an instance that is none of the instances earlier calls
\* returned and their callers still hold, nor one a call in progress
\* holds; on Err the error the failing constructor produced.
C11_FreshPerCall ==
    /\ \A f \in OwnedFrames : Len(f.calls) = 1 /\ f.arg = f.params
    /\ ret.kind = "Ok" /\ ret.fr.op = "owned" =>
          /\ ret.val # 0 /\ ret.val = ret.fr.inst
          /\ ret.val \notin {h.id : h \in held}
          /\ \A i \in DOMAIN stack : stack[i].op = "owned" => stack[i].inst # ret.val
    /\ ret.kind = "Err" /\ ret.fr.op = "owned" =>
          ret.err = ret.orig /\ ret.err \in Errors

\* A second resolve_owned<L> has returned while the caller still holds the
\* instance of the first.
C11_Witness ==
    /\ Idle /\ ret.kind = "Ok" /\ ret.fr.op = "owned"
    /\ \E h \in held : h.ty = ret.fr.ty /\ h.id # ret.val

\* C12: a resolve_owned<L> call calls the override registered for L when
\* there is one, and then not the default constructor of L; it calls the
\* default constructor when there is none.  The first call and every
\* later one do so.
C12_OwnedOverride ==
    \A f \in OwnedFrames :
        /\ f.pre.owned_ctor # "none" => f.src = "override" /\ f.calls = <<"custom">>
        /\ f.pre.owned_ctor = "none" => f.src = "default" /\ f.calls = <<"default">>
        /\ phase = "built" => Snap(services, f.ty).owned_ctor = f.pre.owned_ctor

\* A repeated resolve_owned<L> has been served by the override of L.
C12_Witness ==
    /\ ret.kind = "Ok" /\ ret.fr.op = "owned" /\ ret.fr.calls = <<"custom">>
    /\ \E h \in held : h.ty = ret.fr.ty

\* A step of the engine in a resolve_owned call: the call starts, its
\* constructor has returned, or it returns.
OwnedStep ==
    \/ Len(stack') = Len(stack) + 1 /\ stack'[Len(stack')].op = "owned"
    \/ /\ stack # <<>> /\ Top.op = "owned"
       /\ stack' = Pop \/ (Len(stack') = Len(stack) /\ stack' # stack)

\* C13: no step of resolve_owned<L> changes the map or a reference count:
\* no entry is created, no handle written, no override changed.  When the
\* call has returned Ok or Err, the entry of L is what it was when the
\* call started, unless a resolve_shared<L> nested in the call cached L.
C13_OwnedLeavesMap ==
    /\ [](ret.kind \in {"Ok", "Err"} /\ ret.fr.op = "owned" /\ ~ret.fr.reent =>
             Snap(services, ret.fr.ty) = ret.fr.pre)
    /\ [][OwnedStep => services' = services /\ heap' = heap]_vars

\* A resolve_owned<L> has returned Ok and the map has no entry at all.
C13_Witness ==
    /\ ret.kind = "Ok" /\ ret.fr.op = "owned" /\ ret.depth = 1
    /\ phase = "built" /\ services = <<>>

\* C14: a resolve call that has returned Ok has called the hook of its
\* type once, whether its instance came from the cache or from a
\* constructor; a call whose constructor runs has not called it yet, and a
\* call that has returned Err has not called it.
C14_HookOncePerCall ==
    /\ \A f \in SharedFrames \cup OwnedFrames :
          /\ f.pc = "ctor" => f.hooks = 0
          /\ f.pc = "hook" => f.hooks = 1
    /\ ret.kind = "Ok" /\ ret.fr.op \in {"shared", "owned"} =>
          ret.fr.pc = "hook" /\ ret.fr.hooks = 1
    /\ ret.kind = "Err" => ret.fr.hooks = 0

\* A resolve_shared served from the cache has returned after one call of
\* the hook.
C14_Witness ==
    /\ ret.kind = "Ok" /\ ret.fr.op = "shared" /\ ret.fr.src = "cached"
    /\ ret.fr.hooks = 1

\* A's constructor resolves nothing and A's hook resolves B; B's
\* constructor resolves A.
HookCycle ==
    [t \in Types |-> IF t = "A" THEN [ctor |-> "none", hook |-> "B"]
                     ELSE [ctor |-> "A", hook |-> "none"]]

\* A's constructor resolves B and B's constructor resolves A.
NaiveCycle ==
    [t \in Types |-> IF t = "A" THEN [ctor |-> "B", hook |-> "none"]
                     ELSE [ctor |-> "A", hook |-> "none"]]

\* Calls in progress in which the constructor of t was invoked.
CtorRuns(t) == {i \in DOMAIN stack : stack[i].ty = t /\ stack[i].calls # <<>>}

\* C15 as claimed: with the cycle of A and B broken by the hook of A, a
\* resolve_shared<A> invokes each constructor once and nests no deeper
\* than the three calls A, B, A it takes to end.
C15_HookCycleEnds ==
    script = HookCycle /\ stack # <<>> /\ stack[1].ty = "A" =>
        /\ \A t \in Types : Cardinality(CtorRuns(t)) <= 1
        /\ Len(stack) <= 3

\* C16: with the cycle of A and B in their constructors, a resolve_shared
\* never returns: no call has ended and nothing is cached, every call in
\* progress is inside its constructor, and the innermost constructor can
\* only go one call deeper.
C16_NaiveCycleDiverges ==
    script = NaiveCycle =>
        /\ services = <<>> /\ heap = <<>>
        /\ ret.kind = "None"
        /\ \A i \in DOMAIN stack :
              /\ stack[i].pc = "ctor" /\ stack[i].calls = <<"default">>
              /\ i > 1 => stack[i].ty # stack[i - 1].ty
        /\ stack # <<>> =>
              /\ ~ENABLED SharedCtorOk
              /\ ~ENABLED HookReturn
              /\ Len(stack) < MaxCycleDepth => ENABLED resolve_dep

\* The constructors of A and B are nested as deep as the calls are
\* followed.
C16_Witness ==
    /\ script = NaiveCycle /\ Len(stack) = MaxCycleDepth
    /\ stack[1].ty = "A" /\ stack[Len(stack)].ty = "B"

\* ------------------------------------------------------ poisoning (C17-C20)
\* The accesses in progress, as <<thread, position>>.
Frames == {x \in Threads \X (1..MaxNest) : x[2] \in DOMAIN acc[x[1]].stack}

FrameAt(x) == acc[x[1]].stack[x[2]]

\* A step that starts the closure of an access of thread th.
Starts(th) == Len(acc'[th].stack) = Len(acc[th].stack) + 1

\* C17: after a closure has panicked during access_mut or try_access_mut on
\* a Mutex- or RwLock-backed instance, the next access, whichever of the
\* four operations it is and whichever thread makes it, neither returns
\* None nor panics: it runs the closure with the data tagged Poisoned.
C17_NextAccessPoisoned ==
    /\ [](cell.fresh =>
            /\ cell.backing \in LockBackings /\ cell.xp
            /\ \A th \in Threads, op \in OpsOf(cell.backing) :
                  Begin(th, op) = [kind |-> "run", tag |-> "Poisoned"])
    /\ [][cell.fresh =>
            \E th \in Threads :
               /\ Starts(th)
               /\ acc'[th].stack[Len(acc'[th].stack)].tag = "Poisoned"]_vars

\* A try_access of another thread runs on data that a panic during an
\* exclusive access has poisoned.
C17_Witness ==
    /\ cell.xp /\ ~cell.sp
    /\ acc[1].last.res = "Panic" /\ acc[1].last.op = "access_mut"
    /\ acc[2].stack # <<>>
    /\ acc[2].stack[1].op = "try_access" /\ acc[2].stack[1].tag = "Poisoned"

\* A step in which the closure of an access that was tagged Poisoned
\* returns without a panic.
ReturnsOnPoisoned(th) ==
    /\ acc[th].stack # <<>>
    /\ Len(acc'[th].stack) = Len(acc[th].stack) - 1
    /\ acc'[th].last.res = "Ran" /\ acc'[th].last.tag = "Poisoned"

\* C18 as stated: once the closure of an access to a poisoned lock-backed
\* instance has returned normally, the poison is cleared and later
\* accesses are tagged Healthy.
C18_ClearsOnNormalAccess ==
    [][\A th \in Threads : ReturnsOnPoisoned(th) => ~cell'.poison]_vars

\* C18: the poison of a lock-backed instance never clears: once set it
\* stays set, also over an access whose closure returns normally, and
\* every access that then runs its closure is tagged Poisoned.
C18_PoisonStays ==
    /\ [][cell.poison => cell'.poison]_vars
    /\ [][\A th \in Threads : ReturnsOnPoisoned(th) => cell'.poison]_vars
    /\ [](cell.poison =>
            \A th \in Threads, op \in OpsOf(cell.backing) :
               Begin(th, op).kind = "run" => Begin(th, op).tag = "Poisoned")

\* On a poisoned Mutex the closure of thread 1 has returned normally, and
\* the access of thread 2 that came after it is tagged Poisoned.
C18_Witness ==
    /\ cell.backing = "Mutex"
    /\ acc[1].last.res = "Ran" /\ acc[1].last.tag = "Poisoned"
    /\ acc[2].stack # <<>> /\ acc[2].stack[1].tag = "Poisoned"

\* C19 as stated: an access is tagged Poisoned only if an earlier
\* exclusive access to the instance panicked, whatever the backing.
C19_OnlyExclusivePoisons ==
    \A x \in Frames : FrameAt(x).tag = "Poisoned" => cell.xp

\* C19: an access is tagged Poisoned only on a Mutex or a RwLock and only
\* after a panic in an earlier access; for a RwLock that access was an
\* exclusive one, for a Mutex it was of either kind, since a shared access
\* to a Mutex holds the one guard a Mutex has.  A panic during a shared
\* access to any other backing never poisons.
C19_PoisonedOnlyAfterPanic ==
    /\ \A x \in Frames :
          FrameAt(x).tag = "Poisoned" =>
             /\ cell.backing \in LockBackings
             /\ cell.xp \/ (cell.backing = "Mutex" /\ cell.sp)
    /\ cell.poison => cell.xp \/ (cell.backing = "Mutex" /\ cell.sp)
    /\ cell.backing \notin LockBackings => ~cell.poison

\* An access to a Mutex is tagged Poisoned after a panic in a shared access
\* and no panic in an exclusive one.
C19_Witness ==
    /\ cell.backing = "Mutex" /\ cell.sp /\ ~cell.xp
    /\ \E x \in Frames : FrameAt(x).tag = "Poisoned"

\* C20: no operation returns None or panics because the instance is
\* poisoned: one that found no guard in its way has run its closure.
\* assert_healthy gives the value for Healthy and panics for Poisoned, and
\* unpoison gives the value for both.
C20_OnlyAssertEscalates ==
    /\ \A th \in Threads :
          LET l == acc[th].last IN
          /\ l.res = "None" => ~l.free
          /\ l.res = "Panic" /\ l.cause = "held" => ~l.free
          /\ l.res = "Panic" /\ l.cause = "assert_healthy" => l.tag = "Poisoned"
    /\ \A x \in Frames :
          FrameAt(x).got = "assert_healthy" => FrameAt(x).tag = "Healthy"
    /\ \A tag \in {"Healthy", "Poisoned"} :
          /\ assert_healthy(tag) = "value" <=> tag = "Healthy"
          /\ assert_healthy(tag) = "panic" <=> tag = "Poisoned"
          /\ unpoison(tag) = "value"

\* On a poisoned instance one closure was ended by the panic of
\* assert_healthy and another goes on with the value unpoison gave it.
C20_Witness ==
    /\ cell.poison
    /\ acc[1].last.res = "Panic" /\ acc[1].last.cause = "assert_healthy"
    /\ acc[2].stack # <<>>
    /\ acc[2].stack[1].tag = "Poisoned" /\ acc[2].stack[1].got = "unpoison"

\* ------------------------------------------------- backings (C21-C24)
\* A step in which an operation of thread th returns None.
ReturnsNone(th) == acc'[th].last # acc[th].last /\ acc'[th].last.res = "None"

\* C21: on an Access-, Cell- or RefCell-backed instance every access that
\* runs its closure is tagged Healthy, also after a closure has panicked
\* during an exclusive access to it; on an Access-backed instance access
\* and try_access always run the closure.
C21_PlainAlwaysHealthy ==
    cell.backing \notin LockBackings =>
       /\ \A x \in Frames : FrameAt(x).tag = "Healthy"
       /\ \A th \in Threads : acc[th].last.tag \in {"none", "Healthy"}
       /\ \A th \in Threads, op \in OpsOf(cell.backing) :
             Begin(th, op).kind = "run" => Begin(th, op).tag = "Healthy"
       /\ cell.backing = "Access" =>
             /\ \A th \in Threads, op \in SharedOps : Begin(th, op).kind = "run"
             /\ \A th \in Threads :
                   acc[th].last.res \in {"none", "Ran"}
                   \/ acc[th].last.cause \in {"closure", "assert_healthy"}

\* A closure runs on a RefCell tagged Healthy after a closure panicked
\* during an exclusive access to it.
C21_Witness ==
    /\ cell.backing = "RefCell" /\ cell.xp
    /\ acc[1].stack # <<>>
    /\ acc[1].stack[1].op = "access_mut" /\ acc[1].stack[1].tag = "Healthy"

\* C22: on a RefCell-backed instance try_access returns None exactly when
\* an exclusive borrow is out, try_access_mut exactly when any borrow is
\* out; an operation that returns None has not run its closure and has
\* left the borrows as they were.
C22_RefCellTry ==
    /\ [](cell.backing = "RefCell" =>
            /\ Begin(1, "try_access").kind = "none"
                  <=> \E x \in Frames : FrameAt(x).guard = "write"
            /\ Begin(1, "try_access_mut").kind = "none"
                  <=> \E x \in Frames : FrameAt(x).guard # "none"
            /\ \A op \in {"try_access", "try_access_mut"} :
                  Begin(1, op).kind \in {"none", "run"})
    /\ [][cell.backing = "RefCell" =>
            \A th \in Threads :
               ReturnsNone(th) =>
                  /\ acc'[th].stack = acc[th].stack
                  /\ acc'[th].last.op \in {"try_access", "try_access_mut"}
                  /\ cell' = cell]_vars

\* Inside a shared access to a RefCell a try_access_mut has returned None
\* and the shared borrow is still out.
C22_Witness ==
    /\ cell.backing = "RefCell"
    /\ Len(acc[1].stack) = 1 /\ acc[1].stack[1].guard = "read"
    /\ acc[1].last.res = "None" /\ acc[1].last.op = "try_access_mut"

\* The lock is held in a way that a guard for op cannot go with.
HeldAgainst(op) ==
    \E x \in Frames :
       \/ FrameAt(x).guard = "write"
       \/ FrameAt(x).guard = "read" /\ GuardOf(cell.backing, op) = "write"

\* C23: on a Mutex- or RwLock-backed instance try_access and
\* try_access_mut never wait and never panic on their own; they return
\* None, without running the closure, exactly when the lock is held in a
\* conflicting mode, and they run the closure tagged Poisoned when the lock
\* is poisoned and free.
C23_TryNeverWaits ==
    /\ [](cell.backing \in LockBackings =>
            \A th \in Threads, op \in {"try_access", "try_access_mut"} :
               /\ Begin(th, op).kind \in {"none", "run"}
               /\ Begin(th, op).kind = "none" <=> HeldAgainst(op)
               /\ cell.poison /\ ~HeldAgainst(op) =>
                     Begin(th, op) = [kind |-> "run", tag |-> "Poisoned"])
    /\ [][cell.backing \in LockBackings =>
            \A th \in Threads :
               ReturnsNone(th) =>
                  /\ acc'[th].stack = acc[th].stack
                  /\ acc'[th].last.op \in {"try_access", "try_access_mut"}
                  /\ ~acc'[th].last.free]_vars

\* While thread 1 is inside an access to a poisoned lock, a try_access_mut
\* of thread 2 has returned None.
C23_Witness ==
    /\ cell.backing \in LockBackings /\ cell.poison
    /\ acc[1].stack # <<>> /\ acc[1].stack[1].tag = "Poisoned"
    /\ acc[2].last.res = "None" /\ acc[2].last.op = "try_access_mut"

\* C24: on a lock-backed instance no closure of an exclusive access runs
\* while the closure of another access, shared or exclusive, of any thread
\* runs; on a Mutex no two closures run at the same time at all.
C24_ExclusiveAlone ==
    cell.backing \in LockBackings =>
       /\ \A x \in Frames :
             /\ FrameAt(x).guard # "none"
             /\ FrameAt(x).op \in ExclusiveOps => FrameAt(x).guard = "write"
       /\ \A x, y \in Frames :
             x # y =>
                /\ FrameAt(x).op \in SharedOps /\ FrameAt(y).op \in SharedOps
                /\ cell.backing = "RwLock"

\* Two threads are inside shared accesses to a RwLock at the same time.
C24_Witness ==
    /\ cell.backing = "RwLock"
    /\ acc[1].stack # <<>> /\ acc[1].stack[1].op = "access"
    /\ acc[2].stack # <<>> /\ acc[2].stack[1].op = "access"

\* ------------------------------------------------- overrides (C25, C26)
\* C25: once the container is built, no step of it (insert, resolve_shared,
\* resolve_owned, the resolutions nested in constructors and hooks) adds,
\* removes or changes the shared or the owned override constructor of any
\* type: the overrides stay those the builder handed over.
C25_OverridesFixed ==
    [][phase = "built" /\ phase' = "built" =>
         \A t \in Types :
            /\ Snap(services', t).shared_ctor = Snap(services, t).shared_ctor
            /\ Snap(services', t).owned_ctor = Snap(services, t).owned_ctor]_vars

\* A type with both overrides has been inserted into and resolved, and its
\* overrides are there.
C25_Witness ==
    /\ phase = "built"
    /\ ret.kind = "Ok" /\ ret.fr.op = "shared" /\ ret.fr.ty = "A"
    /\ kept[ret.val] = 1
    /\ Snap(services, "A").shared_ctor = "custom"
    /\ Snap(services, "A").owned_ctor = "custom"

\* C26: insert<S> on an entry without an instance succeeds also when the
\* entry holds an override constructor, and stores the pointer; a stored
\* pointer stays, and every resolve_shared<S> that finds one returns it
\* without calling any constructor.
C26_SeedAfterBuild ==
    /\ [](ret.fr.op = "insert" /\ ret.fr.pre.shared_ptr = 0 =>
            /\ ret.kind = "Ok"
            /\ Snap(services, ret.fr.ty).shared_ptr = ret.fr.inst
            /\ Snap(services, ret.fr.ty).shared_ctor = ret.fr.pre.shared_ctor)
    /\ [](\A f \in SharedFrames :
             f.pre.shared_ptr # 0 =>
                f.src = "cached" /\ f.calls = <<>> /\ f.inst = f.pre.shared_ptr)
    /\ [][phase = "built" /\ phase' = "built" =>
            \A t \in Types :
               Snap(services, t).shared_ptr # 0 =>
                  Snap(services', t).shared_ptr = Snap(services, t).shared_ptr]_vars

\* A resolve_shared of a type with a shared override has returned the
\* instance the application inserted, and no constructor was called.
C26_Witness ==
    /\ ret.kind = "Ok" /\ ret.fr.op = "shared"
    /\ ret.fr.pre.shared_ctor = "custom"
    /\ ret.fr.calls = <<>>
    /\ kept[ret.val] = 1 /\ handles[ret.val] = 1

\* ------------------------------------------------- instances (C27, C28)
\* A step in which a holder writes to an instance.
WriteStep == \E a \in DOMAIN heap, v \in Values : holder_writes(a, v)

\* C27: the container never changes what a cached instance contains: the
\* value of an instance changes in no step but a write of one of its
\* holders, and the drop of the container destroys no instance that has
\* another holder.
C27_ContentsUntouched ==
    /\ [][WriteStep \/ \A a \in DOMAIN heap :
                          /\ heap'[a].val = heap[a].val
                          /\ heap'[a].ty = heap[a].ty]_vars
    /\ [][phase = "built" /\ phase' = "dropped" =>
            \A a \in DOMAIN heap :
               heap[a].strong > 1 => heap'[a].dropped = 0 /\ heap'[a].strong > 0]_vars

\* An instance a holder has written to was resolved again, and the
\* container was dropped while the holder lives on: the value is there.
C27_Witness ==
    /\ phase = "dropped"
    /\ \E a \in DOMAIN heap :
          /\ heap[a].val = 1 /\ heap[a].dropped = 0
          /\ handles[a] = 2

\* A step in which resolve_shared clones the pointer of the cache.
ClonesCached ==
    /\ Len(stack') = Len(stack) + 1
    /\ stack'[Len(stack')].op = "shared" /\ stack'[Len(stack')].src = "cached"

LibOwners(hs, l, a) ==
    hs[a] + Cardinality({t \in DOMAIN l.singletons : l.singletons[t] = a})

\* A step in which remove<T> has returned.
Removes == ret' # ret /\ ret'.fr.op = "remove"

\* C29: remove<T> returns None when T is not stored; else it takes the
\* entry out of the map and returns the stored singleton, the reference
\* of the container going over to the caller: the strong count is the one
\* before the call, it is the number of owners, and no handle dangles.
C29_RemoveHandsOver ==
    /\ [][Removes =>
            LET t == ret'.fr.ty
                a == ret'.val
            IN /\ t \notin DOMAIN lib'.singletons
               /\ a = 0 <=> t \notin DOMAIN lib.singletons
               /\ a # 0 =>
                     /\ a = lib.singletons[t]
                     /\ heap'[a].strong = heap[a].strong
                     /\ heap'[a].strong = LibOwners(handles', lib', a)
                     /\ heap'[a].dropped = 0]_vars
    /\ [](\A a \in DOMAIN heap : handles[a] > 0 => heap[a].strong > 0)

\* ---------------------------------------------------- re-entrancy (C30)
\* A step in which the constructor of the innermost resolve_shared call
\* returns Ok although a call nested in it has cached its type.
LateSuccess ==
    /\ stack # <<>> /\ Top.op = "shared" /\ Top.pc = "ctor"
    /\ Cached(Top.ty) # 0
    /\ NextAddr(heap') > NextAddr(heap)

C31_FirstSeedKept ==
    [][\A t \in Types :
          phase = "building" /\ Cached(t) # 0 =>
             /\ Snap(services', t).shared_ptr = Cached(t)
             /\ heap'[Cached(t)].strong >= heap[Cached(t)].strong]_vars

TypesOf(ds) == {d.ty : d \in ds}

\* The dependencies a failed resolve_shared had resolved are cached and
\* alive when it has returned Err.
DepsKept ==
    ret.kind = "Err" /\ ret.fr.op = "shared" =>
        \A d \in ret.fr.deps :
            /\ Cached(d.ty) = d.inst
            /\ heap[d.inst].strong > 0 /\ heap[d.inst].dropped = 0

\* A call that follows a failed resolve_shared of its type gets the
\* dependencies of the failed call from the cache: no constructor of theirs
\* is called, and the instance is the one of the failed attempt.
RetryReuses ==
    /\ \A i, j \in DOMAIN stack :
          i < j /\ stack[j].op = "shared" /\ stack[j].ty \in TypesOf(stack[i].known) =>
             /\ stack[j].src = "cached" /\ stack[j].calls = <<>>
             /\ [ty |-> stack[j].ty, inst |-> stack[j].inst] \in stack[i].known
    /\ (/\ stack # <<>> /\ ret.kind # "None" /\ ret.fr.op = "shared"
        /\ ret.fr.ty \in TypesOf(Top.known))
          => /\ ret.kind = "Ok" /\ ret.fr.calls = <<>>
             /\ [ty |-> ret.fr.ty, inst |-> ret.val] \in Top.known

\* C33 as stated: when resolve_shared<S> has returned Err after
\* dependencies of S were resolved in the call, these are cached, S is
\* unresolved, and a retry of S gets them without a constructor call.
C33_NoRollback ==
    /\ DepsKept
    /\ (/\ ret.kind = "Err" /\ ret.fr.op = "shared"
        /\ TypesOf(ret.fr.deps) \ {ret.fr.ty} # {}) =>
          Cached(ret.fr.ty) = 0
    /\ RetryReuses

\* C33: when resolve_shared<S> has returned Err after dependencies of S
\* were resolved in the call, these are cached, and a retry of S gets them
\* without a constructor call; S is unresolved unless S is one of them,
\* cached by a resolve_shared<S> nested in the call.
C33_DepsStayCached ==
    /\ DepsKept
    /\ (/\ ret.kind = "Err" /\ ret.fr.op = "shared"
        /\ TypesOf(ret.fr.deps) \ {ret.fr.ty} # {}) =>
          /\ ~ret.fr.reent => Cached(ret.fr.ty) = 0
          /\ ret.fr.ty \in TypesOf(ret.fr.deps) => Cached(ret.fr.ty) # 0
    /\ RetryReuses

\* The constructor of a retry of S has got from the cache a dependency the
\* failed attempt had resolved, S being unresolved.
C33_Witness ==
    /\ Len(stack) = 1 /\ Top.op = "shared" /\ Top.pc = "ctor"
    /\ Top.prev = "Err" /\ Cached(Top.ty) = 0
    /\ ret.kind = "Ok" /\ ret.fr.op = "shared" /\ ret.fr.ty # Top.ty
    /\ [ty |-> ret.fr.ty, inst |-> ret.val] \in Top.known
    /\ ret.fr.calls = <<>>

\* ------------------------------------------- Mutex shared access (C34)
\* A step in which try_access of thread th has returned None.
TryAccessNone(th) ==
    /\ acc'[th].last # acc[th].last
    /\ acc'[th].last.op = "try_access" /\ acc'[th].last.res = "None"

\* C34: on a Mutex the closure of a shared access runs alone, with the
\* lock held as for an exclusive one, and try_access returns None exactly
\* while another access is in progress; on a RwLock a shared access starts
\* beside shared ones, and try_access returns None only while an exclusive
\* access is in progress.
C34_MutexSharedExclusive ==
    /\ [](cell.backing = "Mutex" =>
            /\ Cardinality(Frames) <= 1
            /\ \A x \in Frames : FrameAt(x).guard = "write")
    /\ [][\A th \in Threads :
            /\ (cell.backing = "Mutex" /\ Starts(th)) => Frames = {}
            /\ (cell.backing = "Mutex" /\ TryAccessNone(th)) => Frames # {}
            /\ (cell.backing = "RwLock" /\ TryAccessNone(th)) =>
                  \E x \in Frames : FrameAt(x).op \in ExclusiveOps
            /\ (/\ cell.backing = "RwLock" /\ Starts(th)
                /\ acc'[th].stack[Len(acc'[th].stack)].op \in SharedOps) =>
                  \A x \in Frames : FrameAt(x).op \in SharedOps]_vars

\* try_access of a thread has returned None on a Mutex while the closure of
\* a shared access of the other thread runs.
C34_Witness ==
    /\ cell.backing = "Mutex"
    /\ \E th \in Threads :
          /\ acc[th].last.op = "try_access" /\ acc[th].last.res = "None"
          /\ \E x \in Frames : x[1] # th /\ FrameAt(x).op \in SharedOps

\* ------------------------------------------- RefCell blocking access (C35)
\* The blocking operations.
BlockingOps == {"access", "access_mut"}

\* A step in which a blocking operation of thread th has panicked before
\* its closure ran.
BorrowPanics(th) ==
    /\ acc'[th].last # acc[th].last
    /\ acc'[th].last.op \in BlockingOps
    /\ acc'[th].last.res = "Panic" /\ acc'[th].last.cause = "held"

\* The operation of the access thread th has started in this step.
Started(th) == acc'[th].stack[Len(acc'[th].stack)].op

\* C35: on a RefCell access and access_mut never wait and never return
\* None: access runs its closure unless an exclusive borrow is out, and
\* access_mut unless any borrow is out; otherwise the operation panics,
\* and the panic leaves the guarded value and the absent poison as they
\* are.
C35_RefCellBlocking ==
    /\ [](cell.backing = "RefCell" =>
            /\ \A th \in Threads : acc[th].last.op \in BlockingOps =>
                                      acc[th].last.res # "None"
            /\ \A op \in BlockingOps :
                  Len(acc[1].stack) < MaxNest =>
                     ENABLED (\E k \in 0..MaxNest : access_call(1, op, k)))
    /\ [][\A th \in Threads : cell.backing = "RefCell" =>
            /\ (Starts(th) /\ Started(th) = "access") =>
                  \A x \in Frames : FrameAt(x).guard # "write"
            /\ (Starts(th) /\ Started(th) = "access_mut") =>
                  \A x \in Frames : FrameAt(x).guard = "none"
            /\ (BorrowPanics(th) /\ acc'[th].last.op = "access") =>
                  \E x \in Frames : FrameAt(x).guard = "write"
            /\ (BorrowPanics(th) /\ acc'[th].last.op = "access_mut") =>
                  \E x \in Frames : FrameAt(x).guard # "none"
            /\ BorrowPanics(th) => /\ cell'.val = cell.val
                                   /\ cell'.poison = cell.poison]_vars

\* access_mut called from the closure of an access has panicked and was
\* caught in the closure; the guarded value is in place.
C35_Witness ==
    /\ cell.backing = "RefCell" /\ cell.val = 1
    /\ acc[1].last.op = "access_mut" /\ acc[1].last.res = "Panic"
    /\ acc[1].last.cause = "held" /\ acc[1].last.was = 1
    /\ Len(acc[1].stack) = 1 /\ acc[1].stack[1].op = "access"

\* ------------------------------------------------- Cell copy-back (C36)
\* A step in which an exclusive access of thread th to a Cell has ended
\* with its closure returning.
CellMutEnds(th) ==
    /\ cell.backing = "Cell"
    /\ Len(acc'[th].stack) < Len(acc[th].stack)
    /\ acc'[th].last.op \in ExclusiveOps /\ acc'[th].last.res = "Ran"

Parked(th) == acc[th].want # "none"

\* The closure of the operation op of thread th runs.
Runs(th, op) == acc[th].stack # <<>> /\ acc[th].stack[1].op = op

\* A guard that another thread holds is in the way of op of thread th.
InTheWay(th, op) ==
    \E x \in Frames :
        /\ x[1] # th
        /\ \/ GuardOf(cell.backing, op) = "write"
           \/ FrameAt(x).guard = "write"

OfKind(op, t) ==
    IF lib.ctors[t] \in {"both", IF op = "singleton" THEN "singleton" ELSE "instance"}
    THEN "custom" ELSE "default"

\* C38: resolve_singleton and resolve_instance call the custom constructor
\* of their kind when one is registered for T, and the default constructor
\* of T otherwise, also when the entry of T holds only the other kind; no
\* call leaves defined behaviour for want of a constructor.
C38_CustomOnlyIfRegistered ==
    \A f \in AllFrames :
        f.op \in {"singleton", "instance"} /\ f.calls # <<>> =>
            f.calls = <<OfKind(f.op, f.ty)>>

====
